---- MODULE Spec2Model ----
(***************************************************************************)
(* Model of the RFID door controller: the control loop of src/src/main.cpp *)
(* (first variant, lines 1-493) and the authorization exchange of          *)
(* src/src/RFIDAuth.h (encrypted variant, lines 139-403).                  *)
(*                                                                         *)
(* Time is millis(), in milliseconds.  Time passes only inside the calls   *)
(* that block (the reader poll, the exchange, the denial feedback, the     *)
(* WiFi reconnect); the statements between them take no time.              *)
(***************************************************************************)
EXTENDS Integers, Sequences, FiniteSets, TLC

VARIABLES
    pc,                 \* position of loop(): which statement runs next
    now,                \* millis()
    doorIsOpen,         \* main.cpp:55
    lastDoorAction,     \* main.cpp:56
    doorOpenStartTime,  \* main.cpp:57
    lastButtonState,    \* main.cpp:58
    lastDebounceTime,   \* main.cpp:59
    servo,              \* the value last written with doorServo.write()
    greenLed,           \* level of GREEN_LED
    cmd,                \* the actuator call made by the last step, or "none"
    feedback,           \* the feedback signalled by the last step, or "none"
    scan,               \* what the last step's card scan met, or "none"
    exch,               \* what the last step's call of checkCardAuthorization did, and
                        \* whether the connection of `client` is open
    request,            \* the card read and the request transmitted by the last step
    openReachedAt,      \* while the door is open: time of the stop() that ended the opening
                        \* movement, -1 before it
    closesSinceOpen,    \* number of close() calls since the last open()
    scans,              \* number of cards presented so far
    wifiDrops,          \* number of times the WiFi link was found down so far
    edges,              \* number of level changes of the button pin so far
    ivs,                \* the IVs generateRandomIV has produced so far, oldest first
    fifo                \* the locals of the read loop of capturePhotoToSD and the
                        \* indices of buf written by its last iteration

vars == << pc, now, doorIsOpen, lastDoorAction, doorOpenStartTime, lastButtonState,
           lastDebounceTime, servo, greenLed, cmd, feedback, scan, exch, request,
           openReachedAt, closesSinceOpen, scans, wifiDrops, edges, ivs, fifo >>

-----------------------------------------------------------------------------
\* Program constants

SERVO_STOP == 90
SERVO_OPEN_SPEED == 0
SERVO_CLOSE_SPEED == 180
DOOR_MOVE_TIME == 360
DOOR_OPEN_TIME == 3000
debounceDelay == 50
RESPONSE_TIMEOUT == 5000
SETUP_DELAY == 2000
WIFI_RETRY_DELAY == 500
DENIED_BEEPS == 3
DENIED_BEEP_DELAY == 300
DENIED_READY_DELAY == 2000

HIGH == "HIGH"
LOW == "LOW"

\* Bounds of the model
MaxTime == 6000
MaxScans == 2
MaxWifiDrops == 1
MaxEdges == 2
MaxButtonTime == 2210
MaxCalls == 2

-----------------------------------------------------------------------------
\* Strings are sequences of characters; CR, LF and SP name "\r", "\n" and " ".

CR == "CR"
LF == "LF"
SP == "SP"
Digits == {"0", "1", "2", "3", "4", "5", "6", "7", "8", "9"}

HTTP11 == << "H", "T", "T", "P", "/", "1", ".", "1" >>
HTTP10 == << "H", "T", "T", "P", "/", "1", ".", "0" >>
S200 == << "2", "0", "0" >>

\* String::startsWith
StartsWith(line, prefix) ==
    /\ Len(line) >= Len(prefix)
    /\ SubSeq(line, 1, Len(prefix)) = prefix

\* String::indexOf: the 0-based index of the first occurrence, -1 when there is none
IndexOf(line, pat) ==
    LET hits == { i \in 0 .. (Len(line) - Len(pat)) :
                    SubSeq(line, i + 1, i + Len(pat)) = pat }
    IN  IF hits = {} THEN -1 ELSE CHOOSE i \in hits : \A j \in hits : i <= j

\* Position of the first LF of the stream, 0 when it holds none
FirstLF(stream) ==
    LET at == { i \in 1 .. Len(stream) : stream[i] = LF }
    IN  IF at = {} THEN 0 ELSE CHOOSE i \in at : \A j \in at : i <= j

\* client.readStringUntil('\n'): the characters before the first LF (the LF is
\* consumed and dropped), or all that is left when no LF comes
ReadStringUntil(stream) ==
    IF FirstLF(stream) = 0 THEN stream ELSE SubSeq(stream, 1, FirstLF(stream) - 1)

\* What the stream holds after that read
AfterRead(stream) ==
    IF FirstLF(stream) = 0 THEN << >> ELSE SubSeq(stream, FirstLF(stream) + 1, Len(stream))

\* client.connected(): the connection is open, or closed with unread data left
Connected(stream, closes) == stream # << >> \/ ~closes

\* A header loop that sets `authorized` from every line, status line or not
AuthorizedAfterAnyLine(line, authorized) == IndexOf(line, S200) > 0

\* The value of `authorized` after one header line (RFIDAuth.h:369-372)
AuthorizedAfter(line, authorized) ==
    IF StartsWith(line, HTTP11) THEN IndexOf(line, S200) > 0 ELSE authorized

\* The header loop (RFIDAuth.h:365-377): "granted", "denied", or "hung" when the
\* server sends no empty line and keeps the connection open
RECURSIVE HeaderLoop(_, _, _)
HeaderLoop(stream, closes, authorized) ==
    IF ~Connected(stream, closes)
    THEN IF authorized THEN "granted" ELSE "denied"
    ELSE IF stream = << >>
    THEN "hung"
    ELSE LET line == ReadStringUntil(stream)
             auth == AuthorizedAfter(line, authorized)
         IN  IF line = << CR >>
             THEN IF auth THEN "granted" ELSE "denied"
             ELSE HeaderLoop(AfterRead(stream), closes, auth)

\* A header loop that starts from the answer of the call before
AuthorizedFromLastCall == exch.last = "granted"

\* bool authorized = false; (RFIDAuth.h:364)
AuthorizedAtEntry == FALSE

\* RFIDAuth::checkCardAuthorization against a server that accepts the connection
\* or not (srv.connect), sends srv.reply (nothing: << >>) and then closes the
\* connection or keeps it open (srv.closes)
CheckCardAuthorization(srv) ==
    IF ~srv.connect THEN "connect_failed"
    ELSE IF srv.reply = << >> THEN "timeout"
    ELSE HeaderLoop(srv.reply, srv.closes, AuthorizedAtEntry)

-----------------------------------------------------------------------------
\* Servers the control loop meets

CRLF == << CR, LF >>
StatusLine(code, reason) == HTTP11 \o << SP >> \o code \o reason \o CRLF

ReplyOK == StatusLine(S200, << SP, "O", "K" >>) \o CRLF
ReplyForbidden == StatusLine(<< "4", "0", "3" >>, << SP, "N", "o" >>) \o CRLF
ReplyCreated == StatusLine(<< "2", "0", "1" >>, << >>) \o CRLF
\* No status code at all: "HTTP/1.1 x200"
ReplyGarbled == StatusLine(<< "x" >>, S200) \o CRLF
\* Not HTTP: "OK"
ReplyNoStatus == << "O", "K" >> \o CRLF \o CRLF

Server(connect, reply, closes) ==
    [connect |-> connect, reply |-> reply, closes |-> closes]

LoopServers ==
    { Server(FALSE, << >>, TRUE), Server(TRUE, << >>, FALSE) }
    \cup { Server(TRUE, r, TRUE) :
             r \in { ReplyOK, ReplyForbidden, ReplyCreated, ReplyGarbled, ReplyNoStatus } }
    \cup { Server(TRUE, HTTP11 \o << SP >> \o S200, FALSE) }

\* checkCardAuthorization against each server of loop(), tabulated
LoopAnswer == [srv \in LoopServers |-> CheckCardAuthorization(srv)]

\* The answer of checkCardAuthorization against server srv
AnswerTo(srv) ==
    IF srv \in LoopServers THEN LoopAnswer[srv] ELSE CheckCardAuthorization(srv)

NoScan == [connect |-> FALSE, reply |-> << >>, closes |-> FALSE, result |-> "none"]
Scanned(srv, result) ==
    [connect |-> srv.connect, reply |-> srv.reply, closes |-> srv.closes, result |-> result]

\* What a call of checkCardAuthorization did: the client.connect() calls made,
\* whether the credential was encoded (encryptUID) and the request transmitted, the
\* time spent waiting for the first byte of the response, whether client.stop() was
\* called, whether the connection is open afterwards, the answer (`last`) and the
\* answer of the call before it (`before`)
NoExchange ==
    [connects |-> 0, encoded |-> FALSE, sent |-> FALSE, waited |-> 0,
     stopped |-> FALSE, open |-> FALSE, last |-> "none", before |-> "none"]

\* The locals of the read loop of capturePhotoToSD (main.cpp:346, 367-369) outside a
\* call, and `wrote`, the indices of buf its last iteration wrote to
NoFifo ==
    [length |-> 0, temp |-> 0, temp_last |-> 0, is_header |-> FALSE, i |-> 0,
     wrote |-> << >>]

\* A step of loop() that makes no call: the connection stays as it is
Idle(prev) == [NoExchange EXCEPT !.open = prev.open]

\* A connect that is tried once more before giving up
ConnectFailedRetry(prev) ==
    [connects |-> 2, encoded |-> FALSE, sent |-> FALSE, waited |-> 0,
     stopped |-> FALSE, open |-> prev.open, last |-> "connect_failed",
     before |-> prev.last]

\* if (!client.connect(...)) return false; (RFIDAuth.h:314-318)
ConnectFailed(prev) ==
    [connects |-> 1, encoded |-> FALSE, sent |-> FALSE, waited |-> 0,
     stopped |-> FALSE, open |-> prev.open, last |-> "connect_failed",
     before |-> prev.last]

\* A timeout branch that returns without client.stop()
TimedOutNoStop ==
    [connects |-> 1, encoded |-> TRUE, sent |-> TRUE, waited |-> RESPONSE_TIMEOUT + 1,
     stopped |-> FALSE, open |-> TRUE, last |-> "timeout",
     before |-> exch.last]

\* The wait for the response runs out: client.stop(); return false; (RFIDAuth.h:350-359)
TimedOut ==
    [connects |-> 1, encoded |-> TRUE, sent |-> TRUE, waited |-> RESPONSE_TIMEOUT + 1,
     stopped |-> TRUE, open |-> FALSE, last |-> "timeout",
     before |-> exch.last]

\* A return that stops the connection on a grant only
AnsweredStopOnGrant(result) ==
    [connects |-> 1, encoded |-> TRUE, sent |-> TRUE, waited |-> 0,
     stopped |-> result = "granted", open |-> result # "granted", last |-> result,
     before |-> exch.last]

\* The response was read: client.stop(); return authorized; (RFIDAuth.h:361-399)
Answered(result) ==
    [connects |-> 1, encoded |-> TRUE, sent |-> TRUE, waited |-> 0,
     stopped |-> TRUE, open |-> FALSE, last |-> result,
     before |-> exch.last]

\* The header loop never ends: no return and no client.stop()
Hung ==
    [connects |-> 1, encoded |-> TRUE, sent |-> TRUE, waited |-> 0,
     stopped |-> FALSE, open |-> TRUE, last |-> "hung",
     before |-> exch.last]

\* The call after client.println(jsonString), before the wait for the response
\* (RFIDAuth.h:314-347)
Transmitted(prev) ==
    [connects |-> 1, encoded |-> TRUE, sent |-> TRUE, waited |-> 0,
     stopped |-> FALSE, open |-> TRUE, last |-> "none",
     before |-> prev.last]

\* A call that returns at once and leaves the exchange to finish later
ExchangeAsync(srv, prev) ==
    [connects |-> 1, encoded |-> TRUE, sent |-> TRUE, waited |-> 0,
     stopped |-> FALSE, open |-> TRUE, last |-> AnswerTo(srv),
     before |-> prev.last]

\* RFIDAuth::checkCardAuthorization (RFIDAuth.h:307-400), by the way it leaves
Exchange(srv, prev) ==
    LET result == AnswerTo(srv)
    IN  CASE result = "connect_failed" -> ConnectFailed(prev)
          [] result = "timeout" -> TimedOut
          [] result = "hung" -> Hung
          [] OTHER -> Answered(result)

-----------------------------------------------------------------------------
\* The request (RFIDAuth.h:322-347). A card UID is a sequence of bytes; a string is a
\* sequence of characters.

DecDigit(n) == << "0", "1", "2", "3", "4", "5", "6", "7", "8", "9" >>[n + 1]
HexDigit(n) ==
    << "0", "1", "2", "3", "4", "5", "6", "7", "8", "9", "a", "b", "c", "d", "e", "f" >>[n + 1]

\* String(b, DEC)
RECURSIVE DecString(_)
DecString(b) == IF b < 10 THEN << DecDigit(b) >> ELSE DecString(b \div 10) \o << DecDigit(b % 10) >>

\* String(b, HEX), in lower case
RECURSIVE HexString(_)
HexString(b) == IF b < 16 THEN << HexDigit(b) >> ELSE HexString(b \div 16) \o << HexDigit(b % 16) >>

\* formatUID of the encrypting class (RFIDAuth.h:174-186): "0" before a byte below
\* 0x10, then the byte in decimal
RECURSIVE FormatUID(_)
FormatUID(uidBytes) ==
    IF uidBytes = << >> THEN << >>
    ELSE (IF Head(uidBytes) < 16 THEN << "0" >> ELSE << >>)
         \o DecString(Head(uidBytes)) \o FormatUID(Tail(uidBytes))

\* formatUID of the class that does not encrypt (RFIDAuth.h:17-30): two lower-case
\* hex digits a byte
RECURSIVE FormatUIDHex(_)
FormatUIDHex(uidBytes) ==
    IF uidBytes = << >> THEN << >>
    ELSE (IF Head(uidBytes) < 16 THEN << "0" >> ELSE << >>)
         \o HexString(Head(uidBytes)) \o FormatUIDHex(Tail(uidBytes))

\* byteArrayToHexString (RFIDAuth.h:199-212)
RECURSIVE ByteArrayToHexString(_)
ByteArrayToHexString(array) ==
    IF array = << >> THEN << >>
    ELSE << HexDigit(Head(array) \div 16), HexDigit(Head(array) % 16) >>
         \o ByteArrayToHexString(Tail(array))

\* stringToBytes (RFIDAuth.h:189-196): the character codes of a string of digits
ASCII_ZERO == 48
StringToBytes(str) ==
    [i \in 1 .. Len(str) |-> ASCII_ZERO + (CHOOSE n \in 0 .. 9 : DecDigit(n) = str[i])]

BlockSize == 16

\* A padding that fills the last block with zero bytes
AddZeroPadding(input) ==
    input \o [i \in 1 .. BlockSize - (Len(input) % BlockSize) |-> 0]

\* addPKCS7Padding (RFIDAuth.h:230-255)
AddPKCS7Padding(input) ==
    LET padding_length == BlockSize - (Len(input) % BlockSize)
    IN  input \o [i \in 1 .. padding_length |-> padding_length]

\* AES128.runEnc (RFIDAuth.h:286): the ciphertext of AES-128-CBC is not computed; it
\* is written as a term of the key, the IV and the padded input
AES_KEY == "AES_KEY"
RunEnc(key, padded, iv) == [cipher |-> "AES-128-CBC", key |-> key, iv |-> iv, input |-> padded]
NoCiphertext == [cipher |-> "none", key |-> "none", iv |-> << >>, input |-> << >>]

\* A string value of the JSON document: its characters, or, for the hex string of a
\* ciphertext, the ciphertext it spells
Chars(cs) == [chars |-> cs, hexOf |-> NoCiphertext]
CipherToHexString(ciphertext) == [chars |-> << >>, hexOf |-> ciphertext]

\* "your_device_uuid" and "your_server_ip" (README.md:72-74)
DEVICE_UUID ==
    Chars(<< "y", "o", "u", "r", "_", "d", "e", "v", "i", "c", "e", "_", "u", "u", "i", "d" >>)
SERVER_ADDRESS == "your_server_ip"

\* An ivHex taken from the IV buffer after AES128.runEnc has run over it: the hex
\* string of what the cipher left there
IvHexAfterRunEnc(iv, ciphertext) == CipherToHexString(ciphertext)

\* encryptUID: ivHex = byteArrayToHexString(iv, 16), before the encryption
\* (RFIDAuth.h:264-265)
IvHex(iv, ciphertext) == Chars(ByteArrayToHexString(iv))

\* encryptUID and the JSON document of the encrypting class (RFIDAuth.h:322-333)
EncryptedBody(uidBytes, iv) ==
    LET ciphertext == RunEnc(AES_KEY, AddPKCS7Padding(StringToBytes(FormatUID(uidBytes))), iv)
    IN  [UUID |-> DEVICE_UUID,
         iv |-> IvHex(iv, ciphertext),
         content |-> CipherToHexString(ciphertext)]

\* The JSON document of the class that does not encrypt (RFIDAuth.h:57-68)
PlainBody(uidBytes) ==
    [UUID |-> DEVICE_UUID, content |-> Chars(FormatUIDHex(uidBytes))]

NoBody == [none |-> Chars(<< >>)]

\* The characters of a string value; a hex digit of a ciphertext is one of hexChars
\* (RFIDAuth.h:201) and is written CIPHER_HEX_DIGIT, two for each byte
CIPHER_HEX_DIGIT == "h"
ValueChars(v) ==
    IF v.hexOf = NoCiphertext THEN v.chars
    ELSE [i \in 1 .. 2 * Len(v.hexOf.input) |-> CIPHER_HEX_DIGIT]

\* serializeJson (RFIDAuth.h:332-333): the members in the order they were set, with
\* no white space
FieldOrder == << "UUID", "iv", "content" >>
FieldChars ==
    [UUID |-> << "U", "U", "I", "D" >>, iv |-> << "i", "v" >>,
     content |-> << "c", "o", "n", "t", "e", "n", "t" >>]
QUOTE == "\""
Member(name, body) ==
    << QUOTE >> \o FieldChars[name] \o << QUOTE, ":", QUOTE >>
        \o ValueChars(body[name]) \o << QUOTE >>
RECURSIVE Members(_, _)
Members(names, body) ==
    IF names = << >> THEN << >>
    ELSE Member(Head(names), body)
         \o (IF Tail(names) = << >> THEN << >> ELSE << "," >>)
         \o Members(Tail(names), body)
SerializeJson(body) ==
    << "{" >> \o Members(SelectSeq(FieldOrder, LAMBDA f : f \in DOMAIN body), body) \o << "}" >>

\* client.println(jsonString.length()) (RFIDAuth.h:343-344)
ContentLength(jsonString) == Len(jsonString)

\* The lines written to the client, each ended by println (RFIDAuth.h:339-347): a
\* line is the sequence of what was printed on it, the body line is jsonString
Transmit(body) ==
    LET jsonString == SerializeJson(body)
    IN  << << "POST / HTTP/1.1" >>,
           << "Host: ", SERVER_ADDRESS >>,
           << "Content-Type: application/json" >>,
           << "Content-Length: " >> \o DecString(ContentLength(jsonString)),
           << "Connection: close" >>,
           << >>,
           jsonString >>

NoWire == << >>
NoRequest == [uid |-> << >>, body |-> NoBody, wire |-> NoWire]

\* checkCardAuthorization of a card uidBytes whose document is body
Request(uidBytes, body) == [uid |-> uidBytes, body |-> body, wire |-> Transmit(body)]

\* The card and the IV of the scans of loop()
LoopUid == << 222, 173, 190, 239 >>
LoopIV == [i \in 1 .. BlockSize |-> 17 * (i - 1)]

\* The request of the scans of loop()
LoopRequest == Request(LoopUid, EncryptedBody(LoopUid, LoopIV))

\* The request of a call: transmitted when the connect succeeded
RequestOf(e) == IF e.sent THEN LoopRequest ELSE NoRequest

\* Durations of the calls that block, in ms
PollTimes == { 300 }             \* one pass of loop() with no card at the reader
NetTimes == { 60 }               \* connecting and being answered
CaptureTimes == { 40 }           \* capturePhotoToSD

-----------------------------------------------------------------------------
\* The actuator (main.cpp:441-467)

\* millis() - since, for a time t read from millis()
Elapsed(t, since) == t - since

\* openDoor() (main.cpp:441-451)
OpenDoor(t) ==
    /\ servo' = SERVO_OPEN_SPEED
    /\ doorIsOpen' = TRUE
    /\ lastDoorAction' = t
    /\ doorOpenStartTime' = t
    /\ greenLed' = TRUE
    /\ cmd' = "open"
    /\ openReachedAt' = -1
    /\ closesSinceOpen' = 0

\* A closeDoor() that leaves doorIsOpen as it was
CloseDoorKeepFlag(t) ==
    /\ servo' = SERVO_CLOSE_SPEED
    /\ lastDoorAction' = t
    /\ greenLed' = FALSE
    /\ cmd' = "close"
    /\ closesSinceOpen' = closesSinceOpen + 1
    /\ openReachedAt' = -1
    /\ UNCHANGED << doorIsOpen, doorOpenStartTime >>

\* A closeDoor() that leaves the green LED on
CloseDoorLedOn(t) ==
    /\ servo' = SERVO_CLOSE_SPEED
    /\ doorIsOpen' = FALSE
    /\ lastDoorAction' = t
    /\ greenLed' = greenLed
    /\ cmd' = "close"
    /\ closesSinceOpen' = closesSinceOpen + 1
    /\ openReachedAt' = -1
    /\ UNCHANGED doorOpenStartTime

\* closeDoor() (main.cpp:453-462)
CloseDoor(t) ==
    /\ servo' = SERVO_CLOSE_SPEED
    /\ doorIsOpen' = FALSE
    /\ lastDoorAction' = t
    /\ greenLed' = FALSE
    /\ cmd' = "close"
    /\ closesSinceOpen' = closesSinceOpen + 1
    /\ openReachedAt' = -1
    /\ UNCHANGED doorOpenStartTime

\* stopServo() (main.cpp:464-467); openReachedAt notes the stop() that ends an
\* opening movement
StopServo(t) ==
    /\ servo' = SERVO_STOP
    /\ cmd' = "stop"
    /\ openReachedAt' = IF servo = SERVO_OPEN_SPEED THEN t ELSE openReachedAt
    /\ UNCHANGED << doorIsOpen, lastDoorAction, doorOpenStartTime, greenLed, closesSinceOpen >>

\* A step that calls none of the three
NoDoorAction ==
    /\ cmd' = "none"
    /\ UNCHANGED << servo, doorIsOpen, lastDoorAction, doorOpenStartTime, openReachedAt,
                    closesSinceOpen >>

\* loop(): "current door movement is complete" (main.cpp:110)
MovementComplete(t) == Elapsed(t, lastDoorAction) >= DOOR_MOVE_TIME

\* An auto-close check that waits the movement time only
AutoCloseAfterMove(t) == doorIsOpen /\ Elapsed(t, doorOpenStartTime) >= DOOR_MOVE_TIME

\* loop(): "door has been open long enough" (main.cpp:116)
AutoCloseDue(t) == doorIsOpen /\ Elapsed(t, doorOpenStartTime) >= DOOR_OPEN_TIME

\* A checkButton() that takes the press at debounceDelay sharp
ButtonPressedAtDelay(buttonState, t, debounceTime) ==
    /\ Elapsed(t, debounceTime) >= debounceDelay
    /\ buttonState = LOW
    /\ Elapsed(t, lastDoorAction) >= DOOR_MOVE_TIME

\* checkButton(): the press is taken (main.cpp:424-427)
ButtonPressed(buttonState, t, debounceTime) ==
    /\ Elapsed(t, debounceTime) > debounceDelay
    /\ buttonState = LOW
    /\ Elapsed(t, lastDoorAction) >= DOOR_MOVE_TIME

\* A controller that takes every answer but an explicit denial for a grant
AuthorizedUnlessDenied(result) == result \notin { "denied", "hung" }

\* processRFIDCard(): bool authorized = checkCardAuthorization(...) (main.cpp:302-305)
Authorized(result) == result = "granted"

\* A processRFIDCard() that shows "Access Granted" while the card is being checked
FeedbackBeforeAnswer(result) == "granted"

\* processRFIDCard(): the message and the signal that follow the call (main.cpp:305-321);
\* a call that never returns is followed by none
Feedback(result) ==
    CASE result = "hung" -> "none"
      [] Authorized(result) -> "granted"
      [] OTHER -> "denied"

\* A granted branch without its "only open if door is closed" test
GrantOpensAlways == TRUE

\* processRFIDCard(): the granted branch opens the door (main.cpp:310)
GrantOpens == ~doorIsOpen

\* signalAccessDenied(): capture, three beeps, the wait before "Ready"
DeniedFeedbackTime(capture) ==
    capture + DENIED_BEEPS * DENIED_BEEP_DELAY + DENIED_READY_DELAY

-----------------------------------------------------------------------------
\* loop() (main.cpp:93-124), one action per statement

Init ==
    /\ pc = "wifi"
    /\ now = SETUP_DELAY
    /\ doorIsOpen = FALSE
    /\ lastDoorAction = 0
    /\ doorOpenStartTime = 0
    /\ lastButtonState = HIGH
    /\ lastDebounceTime = 0
    /\ servo = SERVO_STOP
    /\ greenLed = FALSE
    /\ cmd = "stop"
    /\ feedback = "none"
    /\ scan = NoScan
    /\ exch = NoExchange
    /\ request = NoRequest
    /\ openReachedAt = -1
    /\ closesSinceOpen = 0
    /\ scans = 0
    /\ wifiDrops = 0
    /\ edges = 0
    /\ ivs = << >>
    /\ fifo = NoFifo

\* if (WiFi.status() != WL_CONNECTED) setupWiFi();
LoopWiFi ==
    /\ pc = "wifi"
    /\ now <= MaxTime
    /\ \/ UNCHANGED << now, wifiDrops >>
       \/ /\ wifiDrops < MaxWifiDrops
          /\ wifiDrops' = wifiDrops + 1
          /\ now' = now + WIFI_RETRY_DELAY
    /\ pc' = "card"
    /\ NoDoorAction
    /\ feedback' = "none"
    /\ scan' = NoScan
    /\ exch' = Idle(exch)
    /\ request' = NoRequest
    /\ UNCHANGED << lastButtonState, lastDebounceTime, greenLed, scans, edges >>
    /\ UNCHANGED << ivs, fifo >>

\* No new card at the reader
NoCard ==
    /\ pc = "card"
    /\ \E d \in PollTimes : now' = now + d
    /\ pc' = "button"
    /\ NoDoorAction
    /\ feedback' = "none"
    /\ scan' = NoScan
    /\ exch' = Idle(exch)
    /\ request' = NoRequest
    /\ UNCHANGED << lastButtonState, lastDebounceTime, greenLed, scans, wifiDrops, edges >>
    /\ UNCHANGED << ivs, fifo >>

\* processRFIDCard() (main.cpp:295-326) for a card scanned against server srv
ProcessRFIDCard ==
    /\ pc = "card"
    /\ scans < MaxScans
    /\ \E srv \in LoopServers, net \in NetTimes, capture \in CaptureTimes :
         LET result == AnswerTo(srv)
             answered == now + net + (IF result = "timeout" THEN RESPONSE_TIMEOUT + 1 ELSE 0)
             done == IF Authorized(result) \/ result = "hung"
                     THEN answered
                     ELSE answered + DeniedFeedbackTime(capture)
         IN  /\ now' = done
             /\ scan' = Scanned(srv, result)
             /\ exch' = Exchange(srv, exch)
             /\ request' = RequestOf(Exchange(srv, exch))
             /\ pc' = IF result = "hung" THEN "hung" ELSE "button"
             /\ feedback' = Feedback(result)
             /\ IF Authorized(result) /\ result # "hung"
                THEN IF GrantOpens
                     THEN OpenDoor(answered)
                     ELSE NoDoorAction /\ greenLed' = TRUE
                ELSE NoDoorAction /\ UNCHANGED greenLed
    /\ scans' = scans + 1
    /\ UNCHANGED << lastButtonState, lastDebounceTime, wifiDrops, edges >>
    /\ UNCHANGED << ivs, fifo >>

\* checkButton() (main.cpp:412-439)
CheckButton ==
    /\ pc = "button"
    /\ \E buttonState \in { LOW, HIGH } :
         LET debounceTime == IF buttonState # lastButtonState THEN now ELSE lastDebounceTime
             changed == IF buttonState # lastButtonState THEN 1 ELSE 0
         IN  /\ edges + changed <= MaxEdges
             /\ edges' = edges + changed
             /\ lastDebounceTime' = debounceTime
             /\ lastButtonState' = buttonState
             /\ IF ButtonPressed(buttonState, now, debounceTime) /\ ~doorIsOpen
                THEN OpenDoor(now)
                ELSE NoDoorAction /\ UNCHANGED greenLed
    /\ pc' = "stop"
    /\ feedback' = "none"
    /\ scan' = NoScan
    /\ exch' = Idle(exch)
    /\ request' = NoRequest
    /\ UNCHANGED << now, scans, wifiDrops >>
    /\ UNCHANGED << ivs, fifo >>

\* if (millis() - lastDoorAction >= DOOR_MOVE_TIME) stopServo();
LoopStop ==
    /\ pc = "stop"
    /\ IF MovementComplete(now)
       THEN StopServo(now)
       ELSE NoDoorAction /\ UNCHANGED greenLed
    /\ pc' = "autoclose"
    /\ feedback' = "none"
    /\ scan' = NoScan
    /\ exch' = Idle(exch)
    /\ request' = NoRequest
    /\ UNCHANGED << now, lastButtonState, lastDebounceTime, scans, wifiDrops, edges >>
    /\ UNCHANGED << ivs, fifo >>

\* if (doorIsOpen && millis() - doorOpenStartTime >= DOOR_OPEN_TIME) closeDoor();
LoopAutoClose ==
    /\ pc = "autoclose"
    /\ IF AutoCloseDue(now)
       THEN CloseDoor(now)
       ELSE NoDoorAction /\ UNCHANGED greenLed
    /\ pc' = "wifi"
    /\ feedback' = "none"
    /\ scan' = NoScan
    /\ exch' = Idle(exch)
    /\ request' = NoRequest
    /\ UNCHANGED << now, lastButtonState, lastDebounceTime, scans, wifiDrops, edges >>
    /\ UNCHANGED << ivs, fifo >>

Next ==
    \/ LoopWiFi
    \/ NoCard
    \/ ProcessRFIDCard
    \/ CheckButton
    \/ LoopStop
    \/ LoopAutoClose

Spec == Init /\ [][Next]_vars

-----------------------------------------------------------------------------
\* The earlier revision of the sketch (unnamed/part_001): the same loop(), with a
\* processRFIDCard() that waits DOOR_OPEN_TIME before it returns

\* signalAccessDenied() of that revision: capture and three beeps
DeniedSignalTime(capture) == capture + DENIED_BEEPS * DENIED_BEEP_DELAY

\* processRFIDCard() (part_001:219-255) for a card scanned against server srv
ProcessRFIDCardDelay ==
    /\ pc = "card"
    /\ scans < MaxScans
    /\ \E srv \in LoopServers, net \in NetTimes, capture \in CaptureTimes :
         LET result == AnswerTo(srv)
             answered == now + net + (IF result = "timeout" THEN RESPONSE_TIMEOUT + 1 ELSE 0)
             signalled == IF Authorized(result)
                          THEN answered
                          ELSE answered + DeniedSignalTime(capture)
             \* delay(DOOR_OPEN_TIME) before "Ready"
             done == IF result = "hung" THEN answered ELSE signalled + DOOR_OPEN_TIME
         IN  /\ now' = done
             /\ scan' = Scanned(srv, result)
             /\ exch' = Exchange(srv, exch)
             /\ request' = RequestOf(Exchange(srv, exch))
             /\ pc' = IF result = "hung" THEN "hung" ELSE "button"
             /\ feedback' = Feedback(result)
             /\ IF Authorized(result) /\ result # "hung"
                THEN IF GrantOpens
                     THEN OpenDoor(answered)
                     ELSE NoDoorAction /\ greenLed' = TRUE
                ELSE NoDoorAction /\ UNCHANGED greenLed
    /\ scans' = scans + 1
    /\ UNCHANGED << lastButtonState, lastDebounceTime, wifiDrops, edges >>
    /\ UNCHANGED << ivs, fifo >>

NextDelay ==
    \/ LoopWiFi
    \/ NoCard
    \/ ProcessRFIDCardDelay
    \/ CheckButton
    \/ LoopStop
    \/ LoopAutoClose

SpecDelay == Init /\ [][NextDelay]_vars

-----------------------------------------------------------------------------
\* loop() with no card at the reader, on a fine time grid, for the debounce of
\* checkButton()

\* Durations of one pass of loop() in which nothing blocks, in ms
QuickPollTimes == { 25, 26 }

\* No new card at the reader
NoCardQuick ==
    /\ pc = "card"
    /\ \E d \in QuickPollTimes :
         /\ now + d <= MaxButtonTime
         /\ now' = now + d
    /\ pc' = "button"
    /\ NoDoorAction
    /\ feedback' = "none"
    /\ scan' = NoScan
    /\ exch' = Idle(exch)
    /\ request' = NoRequest
    /\ UNCHANGED << lastButtonState, lastDebounceTime, greenLed, scans, wifiDrops, edges >>
    /\ UNCHANGED << ivs, fifo >>

NextButton ==
    \/ LoopWiFi
    \/ NoCardQuick
    \/ CheckButton
    \/ LoopStop
    \/ LoopAutoClose

SpecButton == Init /\ [][NextButton]_vars

-----------------------------------------------------------------------------
\* checkCardAuthorization on its own: one call against each server of AuthServers

Codes == { S200, << "2", "0", "1" >>, << "2", "0", "4" >>, << "4", "0", "3" >>,
           << "1", "2", "0" >>, << "x" >> }
Reasons == { << >>, << SP, "O", "K" >>, << SP >> \o S200, << "0" >> }
Versions == { HTTP11, HTTP10, << >> }
\* What follows the status line: the empty line, nothing, or a second line that
\* begins like a status line and then the empty line
Tails == { CRLF, << >>,
           HTTP11 \o << SP >> \o S200 \o CRLF \o CRLF,
           HTTP11 \o << SP, "4", "0", "3" >> \o CRLF \o CRLF }

AuthReplies ==
    { v \o << SP >> \o c \o r \o CRLF \o t :
        v \in Versions, c \in Codes, r \in Reasons, t \in Tails }

AuthServers ==
    { Server(FALSE, << >>, TRUE), Server(TRUE, << >>, FALSE), Server(TRUE, << >>, TRUE) }
    \cup { Server(TRUE, r, closes) : r \in AuthReplies, closes \in BOOLEAN }

InitAuth ==
    /\ pc = "call"
    /\ scan \in { Scanned(srv, "none") : srv \in AuthServers }
    /\ exch = NoExchange
    /\ request = NoRequest
    /\ now = SETUP_DELAY
    /\ doorIsOpen = FALSE
    /\ lastDoorAction = 0
    /\ doorOpenStartTime = 0
    /\ lastButtonState = HIGH
    /\ lastDebounceTime = 0
    /\ servo = SERVO_STOP
    /\ greenLed = FALSE
    /\ cmd = "stop"
    /\ feedback = "none"
    /\ openReachedAt = -1
    /\ closesSinceOpen = 0
    /\ scans = 0
    /\ wifiDrops = 0
    /\ edges = 0
    /\ ivs = << >>
    /\ fifo = NoFifo

\* bool authorized = rfidAuth.checkCardAuthorization(uid)
AuthCall ==
    /\ pc = "call"
    /\ LET result == AnswerTo(scan)
       IN  /\ scan' = Scanned(scan, result)
           /\ exch' = Exchange(scan, exch)
           /\ request' = RequestOf(Exchange(scan, exch))
           /\ pc' = IF result = "hung" THEN "hung" ELSE "returned"
    /\ UNCHANGED << now, doorIsOpen, lastDoorAction, doorOpenStartTime, lastButtonState,
                    lastDebounceTime, servo, greenLed, cmd, feedback, openReachedAt,
                    closesSinceOpen, scans, wifiDrops, edges >>
    /\ UNCHANGED << ivs, fifo >>

\* The next card is scanned, against a server of LoopServers
AuthNext ==
    /\ pc = "returned"
    /\ scans + 1 < MaxCalls
    /\ scans' = scans + 1
    /\ pc' = "call"
    /\ scan' \in { Scanned(srv, "none") : srv \in LoopServers }
    /\ UNCHANGED << now, doorIsOpen, lastDoorAction, doorOpenStartTime, lastButtonState,
                    lastDebounceTime, servo, greenLed, cmd, feedback, exch, request,
                    openReachedAt, closesSinceOpen, wifiDrops, edges >>
    /\ UNCHANGED << ivs, fifo >>

NextAuth ==
    \/ AuthCall
    \/ AuthNext

SpecAuth == InitAuth /\ [][NextAuth]_vars

-----------------------------------------------------------------------------
\* The request of checkCardAuthorization on its own, as each of the two classes of
\* RFIDAuth.h builds it

UidBytes == { 0, 10, 255 }
LongUidBytes == { 0, 255 }
UidSize == 4
MaxUidSize == 10
\* Cards of up to UidSize bytes over UidBytes, longer ones over LongUidBytes
Uids ==
    UNION { [1 .. size -> UidBytes] : size \in 1 .. UidSize }
    \cup UNION { [1 .. size -> LongUidBytes] : size \in UidSize + 1 .. MaxUidSize }
IVs == { [i \in 1 .. BlockSize |-> 0], LoopIV }

\* encryptUID, serializeJson and client.println(jsonString) (RFIDAuth.h:322-347)
SendEncryptedRequest ==
    /\ pc = "wifi"
    /\ \E uidBytes \in Uids, iv \in IVs :
         request' = Request(uidBytes, EncryptedBody(uidBytes, iv))
    /\ exch' = Transmitted(exch)
    /\ pc' = "sent"
    /\ UNCHANGED << now, doorIsOpen, lastDoorAction, doorOpenStartTime, lastButtonState,
                    lastDebounceTime, servo, greenLed, cmd, feedback, scan,
                    openReachedAt, closesSinceOpen, scans, wifiDrops, edges >>
    /\ UNCHANGED << ivs, fifo >>

\* formatUID, serializeJson and client.println(jsonString) (RFIDAuth.h:57-82)
SendPlainRequest ==
    /\ pc = "wifi"
    /\ \E uidBytes \in Uids :
         request' = Request(uidBytes, PlainBody(uidBytes))
    /\ exch' = Transmitted(exch)
    /\ pc' = "sent"
    /\ UNCHANGED << now, doorIsOpen, lastDoorAction, doorOpenStartTime, lastButtonState,
                    lastDebounceTime, servo, greenLed, cmd, feedback, scan,
                    openReachedAt, closesSinceOpen, scans, wifiDrops, edges >>
    /\ UNCHANGED << ivs, fifo >>

\* if (!client.connect(...)) return false; (RFIDAuth.h:314-318, 47-53)
RequestConnectFailed ==
    /\ pc = "wifi"
    /\ request' = NoRequest
    /\ exch' = ConnectFailed(exch)
    /\ pc' = "returned"
    /\ UNCHANGED << now, doorIsOpen, lastDoorAction, doorOpenStartTime, lastButtonState,
                    lastDebounceTime, servo, greenLed, cmd, feedback, scan,
                    openReachedAt, closesSinceOpen, scans, wifiDrops, edges >>
    /\ UNCHANGED << ivs, fifo >>

NextRequest ==
    \/ SendEncryptedRequest
    \/ SendPlainRequest
    \/ RequestConnectFailed

SpecRequest == Init /\ [][NextRequest]_vars

-----------------------------------------------------------------------------
\* The door states of the specification, read off the servo command and doorIsOpen

Closed == servo = SERVO_STOP /\ ~doorIsOpen
MovingOpen == servo = SERVO_OPEN_SPEED
Open == servo = SERVO_STOP /\ doorIsOpen
MovingClose == servo = SERVO_CLOSE_SPEED

\* The step is a card scan whose exchange returned not-granted
ScanReturnedNotGranted == scan'.result \in { "denied", "connect_failed", "timeout" }

\* A status line "HTTP/1.x ddd", followed by nothing, by CR or by SP and a reason
WellFormedStatusLine(line) ==
    /\ Len(line) >= 12
    /\ SubSeq(line, 1, 7) = SubSeq(HTTP11, 1, 7)
    /\ line[8] \in Digits
    /\ line[9] = SP
    /\ \A i \in 10 .. 12 : line[i] \in Digits
    /\ Len(line) > 12 => line[13] \in { SP, CR }

\* The response has no well-formed status line
Malformed(reply) == ~WellFormedStatusLine(ReadStringUntil(reply))

\* C1: a card scan whose exchange returns not-granted issues no open(), close() or
\* stop() and leaves the servo command, doorIsOpen, lastDoorAction and
\* doorOpenStartTime as they were; only the denial feedback runs.
C1_DeniedScanLeavesDoor ==
    [][ ScanReturnedNotGranted =>
          /\ cmd' = "none"
          /\ feedback' = "denied"
          /\ UNCHANGED << servo, doorIsOpen, lastDoorAction, doorOpenStartTime >> ]_vars

\* A 403 answer arrived while the servo was driving the door open: the scan returned
\* denied after the movement time and the servo command is still the one before it
C1_Witness ==
    /\ scan.reply = ReplyForbidden
    /\ scan.result = "denied"
    /\ feedback = "denied"
    /\ servo = SERVO_OPEN_SPEED
    /\ now - lastDoorAction >= DOOR_MOVE_TIME

\* C2: the system never fails open: after a connection failure, a response timeout or
\* a malformed response the scan issues no open(), the door state is unchanged, and
\* the denial feedback fires.
C2_NeverFailsOpen ==
    [][ ( \/ scan'.result \in { "connect_failed", "timeout" }
          \/ /\ scan'.result \in { "granted", "denied" }
             /\ Malformed(scan'.reply) )
        => /\ cmd' = "none"
           /\ feedback' = "denied"
           /\ UNCHANGED << servo, doorIsOpen >> ]_vars

\* C5: the door state changes only along Closed, Moving(open), Open, Moving(close),
\* Closed: open() is issued from Closed, close() from Open, and the servo never goes
\* from one drive direction to the other without a stop() in between.
C5_StrictCycle ==
    [][ /\ cmd' = "open" => Closed
        /\ cmd' = "close" => Open
        /\ ~(MovingOpen /\ MovingClose')
        /\ ~(MovingClose /\ MovingOpen') ]_vars

\* C6: after a grant from Closed the actuator calls come in the order open(), stop(),
\* close(), stop(): the call after an open() or a close() is a stop(), the call that
\* ends the Open state is close(), and no stop() comes earlier than DOOR_MOVE_TIME
\* after the open() or close() it ends.
C6_GrantedSequence ==
    [][ /\ (MovingOpen \/ MovingClose) /\ cmd' # "none" => cmd' = "stop"
        /\ Open /\ cmd' \notin { "none", "stop" } => cmd' = "close"
        /\ cmd' = "stop" => now' - lastDoorAction >= DOOR_MOVE_TIME ]_vars

\* C7: a granted credential or a button sample that arrives while the door is not
\* Closed triggers no open() and changes neither lastDoorAction nor doorOpenStartTime.
C7_NoRetrigger ==
    [][ ~Closed /\ pc \in { "card", "button" }
        => /\ cmd' # "open"
           /\ UNCHANGED << lastDoorAction, doorOpenStartTime >> ]_vars

\* C8: when doorIsOpen is true and a second credential is granted, no open() is
\* issued and doorOpenStartTime (with the rest of the door state) keeps its value;
\* the auto-close then fires on the deadline the first open() armed: the check closes
\* the door exactly when DOOR_OPEN_TIME has passed since doorOpenStartTime.
C8_SecondGrantKeepsDeadline ==
    [][ /\ doorIsOpen /\ scan'.result = "granted"
          => /\ cmd' = "none"
             /\ UNCHANGED << servo, doorIsOpen, lastDoorAction, doorOpenStartTime >>
        /\ doorIsOpen /\ pc = "autoclose"
          => (cmd' = "close" <=> now - doorOpenStartTime >= DOOR_OPEN_TIME) ]_vars

\* The door is Open, a second credential was just granted, and the deadline armed by
\* the first open() is still ahead
C8_Witness ==
    /\ Open
    /\ scan.result = "granted"
    /\ cmd = "none"
    /\ doorOpenStartTime < now
    /\ now - doorOpenStartTime < DOOR_OPEN_TIME

\* C9 as claimed: the auto-close close() is issued no earlier than DOOR_OPEN_TIME
\* after the Open state was reached, that is after the stop() that ended the opening
\* movement.
C9_DwellFromOpenReached ==
    [][ cmd' = "close" =>
          /\ openReachedAt # -1
          /\ now' - openReachedAt >= DOOR_OPEN_TIME ]_vars

\* C9 as amended: the auto-close close() is issued no earlier than DOOR_OPEN_TIME
\* after the open() call of the cycle (the last actuator drive command, whose time
\* openDoor() stored in doorOpenStartTime).
C9_CloseAfterOpenCall ==
    [][ cmd' = "close" =>
          /\ doorOpenStartTime = lastDoorAction
          /\ now' - doorOpenStartTime >= DOOR_OPEN_TIME ]_vars

\* close() was issued exactly DOOR_OPEN_TIME after the open() call
C9_Witness ==
    /\ cmd = "close"
    /\ now - doorOpenStartTime = DOOR_OPEN_TIME

\* C10: between an open() and the next open() there is exactly one close(): close()
\* is issued only while doorIsOpen is true and not twice for one open(), and every
\* open() but the first follows the close() of the cycle before it.
C10_OneClosePerOpen ==
    [][ /\ cmd' = "close" => doorIsOpen /\ closesSinceOpen = 0
        /\ cmd' = "open" => closesSinceOpen = 1 \/ lastDoorAction = 0 ]_vars

\* A cycle that ended: one close() since the open(), and the stop() after it
C10_Witness ==
    /\ closesSinceOpen = 1
    /\ cmd = "stop"
    /\ Closed
    /\ now - lastDoorAction >= DOOR_MOVE_TIME
    /\ lastDoorAction - doorOpenStartTime >= DOOR_OPEN_TIME

-----------------------------------------------------------------------------
\* Claims about checkCardAuthorization, under SpecAuth

\* The lines of a response, split at LF
RECURSIVE Lines(_)
Lines(stream) ==
    IF stream = << >> THEN << >>
    ELSE << ReadStringUntil(stream) >> \o Lines(AfterRead(stream))

\* The 3-digit status code of a well-formed status line
StatusCode(line) == SubSeq(line, 10, 12)

\* The response is an HTTP/1.1 response with a status code of class 2xx
Status2xx(reply) ==
    LET line == ReadStringUntil(reply)
    IN  /\ WellFormedStatusLine(line)
        /\ StartsWith(line, HTTP11)
        /\ StatusCode(line)[1] = "2"

\* The response is a status line HTTP/1.1 200, header lines none of which begins
\* with HTTP/1.1, and the empty line
Plain200(reply) ==
    LET ls == Lines(reply)
    IN  /\ WellFormedStatusLine(ls[1])
        /\ StartsWith(ls[1], HTTP11)
        /\ StatusCode(ls[1]) = S200
        /\ \E k \in 2 .. Len(ls) :
             /\ ls[k] = << CR >>
             /\ \A j \in 2 .. (k - 1) : ~StartsWith(ls[j], HTTP11)

\* C3: checkCardAuthorization never returns granted for a response whose status line
\* carries a non-2xx status code, nor for one with no well-formed status line.
C3_GrantOnly2xx ==
    scan.result = "granted" =>
        /\ WellFormedStatusLine(ReadStringUntil(scan.reply))
        /\ StatusCode(ReadStringUntil(scan.reply))[1] = "2"

-----------------------------------------------------------------------------
\* Claims about the loop's deadlines and the button

\* C11: stop() is issued once DOOR_MOVE_TIME has passed since the open() or close():
\* the stop check of loop() stops a driving servo whose movement time is over, and a
\* card scan that calls open() gives control back to loop() before the servo has been
\* driving for DOOR_OPEN_TIME.
C11_StopAtMovementEnd ==
    [][ /\ ( /\ pc = "stop"
             /\ servo # SERVO_STOP
             /\ now - lastDoorAction >= DOOR_MOVE_TIME ) => cmd' = "stop"
        /\ ( pc = "card" /\ cmd' = "open" )
             => now' - lastDoorAction' < DOOR_OPEN_TIME ]_vars

\* The door is Closed and DOOR_MOVE_TIME has passed since the last open() or close()
ClosedNoMovementPending == Closed /\ now - lastDoorAction >= DOOR_MOVE_TIME

\* At a sample of checkButton(): the time for which the samples have read the level
\* just read (0 at the sample that first reads it)
HeldFor == now - lastDebounceTime'

\* C12 as claimed: a LOW held for less than debounceDelay produces no accepted press;
\* a LOW held for debounceDelay or more (50 ms included), with the door Closed and no
\* movement pending, produces one, and it issues open().
C12_PressAtDebounceDelay ==
    [][ pc = "button" /\ lastButtonState' = LOW
        => /\ HeldFor < debounceDelay => cmd' # "open"
           /\ HeldFor >= debounceDelay /\ ClosedNoMovementPending => cmd' = "open" ]_vars

\* C12 as amended: a LOW held for debounceDelay or less produces no accepted press; a
\* LOW held for more than debounceDelay (51 ms or more), with the door Closed and no
\* movement pending, produces one, and it issues open().
C12_PressAfterDebounceDelay ==
    [][ pc = "button" /\ lastButtonState' = LOW
        => /\ HeldFor <= debounceDelay => cmd' # "open"
           /\ HeldFor > debounceDelay /\ ClosedNoMovementPending => cmd' = "open" ]_vars

\* The press was taken at the first sample later than debounceDelay: 51 ms
C12_Witness ==
    /\ pc = "stop"
    /\ cmd = "open"
    /\ lastButtonState = LOW
    /\ now - lastDebounceTime = debounceDelay + 1

\* C13: an accepted button press from Closed with no movement pending triggers the
\* actuator sequence of a granted credential, with its timing: in a run in which no
\* card is presented and the WiFi link stays up, the call after an open() or a
\* close() is a stop(), no earlier than DOOR_MOVE_TIME after it, and the call that
\* ends the Open state is the close(), no earlier than DOOR_OPEN_TIME after the open().
C13_ButtonSequence ==
    [][ scans' = 0 /\ wifiDrops' = 0
        => /\ (MovingOpen \/ MovingClose) /\ cmd' # "none" => cmd' = "stop"
           /\ cmd' = "stop" => now' - lastDoorAction >= DOOR_MOVE_TIME
           /\ Open /\ cmd' \notin { "none", "stop" } => cmd' = "close"
           /\ cmd' = "close" => now' - doorOpenStartTime >= DOOR_OPEN_TIME ]_vars

-----------------------------------------------------------------------------
\* Claims about the exchange of checkCardAuthorization

\* The server of the call accepted the connection and sent nothing
Silent(srv) == srv.connect /\ srv.reply = << >>

\* What checkCardAuthorization returns for the response alone, with nothing kept from
\* an earlier call
ResultOfResponse(srv) ==
    IF ~srv.connect THEN "connect_failed"
    ELSE IF srv.reply = << >> THEN "timeout"
    ELSE HeaderLoop(srv.reply, srv.closes, FALSE)

\* C14: when no response byte arrives within RESPONSE_TIMEOUT after the request is
\* sent, checkCardAuthorization stops the connection and returns not-granted, and no
\* connection is open after it returns.
C14_TimeoutStopsConnection ==
    pc # "call" /\ Silent(scan)
        => /\ pc = "returned"
           /\ scan.result = "timeout"
           /\ ~Authorized(scan.result)
           /\ exch.sent
           /\ exch.waited > RESPONSE_TIMEOUT
           /\ exch.stopped
           /\ ~exch.open

\* The call to a server that kept the connection open and sent nothing has returned
C14_Witness ==
    /\ pc = "returned"
    /\ Silent(scan)
    /\ ~scan.closes
    /\ scan.result = "timeout"
    /\ exch.stopped

\* C15: on every exit path of checkCardAuthorization after a successful connect the
\* connection is closed before the function returns: after any sequence of scans,
\* repeated denials included, no connection is open while loop() runs.
C15_NoConnectionLeftOpen ==
    pc # "hung"
        => /\ ~exch.open
           /\ scan.connect /\ scan.result # "none" => exch.stopped

\* The second of two scans that opened no door was denied by the server, and the
\* connection is closed
C15_Witness ==
    /\ scans = 2
    /\ lastDoorAction = 0
    /\ scan.reply = ReplyForbidden
    /\ scan.result = "denied"
    /\ exch.stopped
    /\ ~exch.open

\* C16: when the connect fails, checkCardAuthorization returns not-granted at once:
\* one connect attempt, no credential encoded, no request transmitted, no wait.
C16_ConnectFailureReturnsAtOnce ==
    pc # "call" /\ ~scan.connect
        => /\ pc = "returned"
           /\ scan.result = "connect_failed"
           /\ ~Authorized(scan.result)
           /\ exch.connects = 1
           /\ ~exch.encoded
           /\ ~exch.sent
           /\ exch.waited = 0

\* The call to a server that refused the connection has returned
C16_Witness ==
    /\ pc = "returned"
    /\ ~scan.connect
    /\ scan.result = "connect_failed"
    /\ exch.connects = 1

\* C17: every call of checkCardAuthorization returns, whatever the server does: no
\* bytes, a few bytes and then silence, headers without the empty line, a connection
\* the server keeps open.
C17_EveryCallReturns == pc # "hung"

\* C18: one exchange at a time, and nothing else while it lasts: a step of loop()
\* starts only with no exchange outstanding, and the step that makes the exchange
\* takes no button sample and calls neither close() nor stop(); an open() it calls
\* comes after the exchange is over.
C18_NothingDuringExchange ==
    [][ /\ ~exch.open
        /\ scans' = scans + 1
             => /\ UNCHANGED << lastButtonState, lastDebounceTime >>
                /\ cmd' \in { "none", "open" }
                /\ cmd' = "open" => ~exch'.open /\ lastDoorAction' = now' ]_vars

\* The auto-close deadline passed while the exchange waited for the response, and
\* the door has not been closed yet
C18_Witness ==
    /\ pc = "button"
    /\ scan.result = "timeout"
    /\ exch.waited > RESPONSE_TIMEOUT
    /\ doorIsOpen
    /\ now - doorOpenStartTime >= DOOR_OPEN_TIME
    /\ cmd = "none"

-----------------------------------------------------------------------------
\* Claims about the request

\* The credential as a string: the formatted UID, in decimal or in hex
PlaintextCredential(uidBytes) == { Chars(FormatUID(uidBytes)), Chars(FormatUIDHex(uidBytes)) }

\* C20: no transmitted request holds the credential in plaintext: the content field
\* is the hex string of the AES-128-CBC ciphertext of the padded credential, and the
\* other fields are the device identifier and the IV, and no others.
C20_NoPlaintextCredential ==
    request.body # NoBody
        => /\ DOMAIN request.body = { "UUID", "iv", "content" }
           /\ request.body.UUID = DEVICE_UUID
           /\ \E iv \in IVs : request.body = EncryptedBody(request.uid, iv)
           /\ \A f \in DOMAIN request.body :
                request.body[f] \notin PlaintextCredential(request.uid)

-----------------------------------------------------------------------------
\* Claims about the green LED and the granted feedback

\* C25: at the end of every iteration of loop() (the next one is about to start) the
\* green LED is on exactly when doorIsOpen is TRUE
C25_GreenLedIffDoorOpen == pc = "wifi" => (greenLed <=> doorIsOpen)

\* An iteration ends with the LED off and the door closed after two scans, a button
\* press and an auto-close
C25_Witness ==
    /\ pc = "wifi"
    /\ ~greenLed
    /\ ~doorIsOpen
    /\ scans = MaxScans
    /\ edges > 0
    /\ closesSinceOpen = 1

\* C26: "Access Granted" and signalAccessGranted are issued for a scan only when
\* checkCardAuthorization has returned for that scan, with the connection stopped, and
\* has returned true; never for a scan whose call returned false or did not return
C26_GrantedFeedbackAfterTrue ==
    [][feedback' = "granted" =>
         /\ pc' # "hung"
         /\ CheckCardAuthorization(scan') = "granted"
         /\ exch'.last = "granted"
         /\ exch'.stopped
         /\ ~exch'.open]_vars

\* A scan was answered with a grant and the granted feedback was issued
C26_Witness ==
    /\ feedback = "granted"
    /\ scan.result = "granted"
    /\ exch.stopped
    /\ pc = "button"

-----------------------------------------------------------------------------
\* Claims about a button that is held down

\* The samples of checkButton have seen the pin go LOW once and never HIGH again, and
\* no card has been scanned and the WiFi link has stayed up: every open() so far is due
\* to this one hold
OneHoldOnly == scans = 0 /\ wifiDrops = 0 /\ edges = 1 /\ lastButtonState = LOW

\* C28: one continuous hold of the button causes at most one open(): while the pin
\* stays LOW, an open() is never issued after the door has already been opened and
\* closed (lastDoorAction is 0 until the first open())
C28_OneOpenPerHold ==
    [][(OneHoldOnly /\ OneHoldOnly' /\ cmd' = "open") => lastDoorAction = 0]_vars

-----------------------------------------------------------------------------
\* generateRandomIV over a sequence of calls of encryptUID (RFIDAuth.h:161-171)

AnalogReads == { 1, 2, 3 }        \* analogRead(A0), readings of the converter
CallGaps == { 1000, 2000 }        \* time from one call of encryptUID to the next, in ms
MaxIvCalls == 3

\* randomSeed(analogRead(A0) * millis()) (RFIDAuth.h:164); the products of the readings
\* and times used here stay far below 2^32, where the multiplication wraps
Seed(a0, t) == a0 * t

\* iv[i] = random(256) for i = 0..15, right after randomSeed(seed) (RFIDAuth.h:167-170).
\* The generator is deterministic: the sixteen bytes are a function of the seed. They
\* are not computed; the IV is written as a term of the seed, so that IVs from
\* different seeds are different
RandomIV(seed) == [randomSeed |-> seed, bytes |-> BlockSize]

\* One call of generateRandomIV, gap ms after the one before
GenerateRandomIV ==
    /\ pc = "wifi"
    /\ Len(ivs) < MaxIvCalls
    /\ \E a0 \in AnalogReads, gap \in CallGaps :
         /\ now' = now + gap
         /\ ivs' = Append(ivs, RandomIV(Seed(a0, now + gap)))
    /\ UNCHANGED << pc, doorIsOpen, lastDoorAction, doorOpenStartTime, lastButtonState,
                    lastDebounceTime, servo, greenLed, cmd, feedback, scan, exch, request,
                    openReachedAt, closesSinceOpen, scans, wifiDrops, edges, fifo >>

NextIV == GenerateRandomIV

SpecIV == Init /\ [][NextIV]_vars

\* C21: across any sequence of calls of the encoder the IVs are pairwise distinct: no
\* two requests are sent with the same IV
C21_IVsPairwiseDistinct ==
    \A i, j \in 1 .. Len(ivs) : i # j => ivs[i] # ivs[j]
-----------------------------------------------------------------------------
\* Claims about encryptUID: padding, length of the credential, shape of the body

\* The request is one of the encrypting class
Encrypted == "iv" \in DOMAIN request.body

\* The bytes encryptUID is given to pad: the characters of the formatted UID
Credential == StringToBytes(FormatUID(request.uid))

\* The padded input of the ciphertext in the content field
PaddedInput == request.body.content.hexOf.input

\* The receiver's side: the bytes a lower-case hex string spells, AES-128-CBC
\* decryption (the input comes back under the key and the IV of the encryption, and
\* nothing under any other), and the removal of PKCS7 padding
HexValue(c) == CHOOSE n \in 0 .. 15 : HexDigit(n) = c
HexToBytes(chars) ==
    [i \in 1 .. Len(chars) \div 2 |-> 16 * HexValue(chars[2 * i - 1]) + HexValue(chars[2 * i])]
Decrypt(key, iv, ciphertext) ==
    IF ciphertext.key = key /\ ciphertext.iv = iv THEN ciphertext.input ELSE << >>
RemovePKCS7Padding(padded) ==
    IF padded = << >> THEN << >>
    ELSE SubSeq(padded, 1, Len(padded) - padded[Len(padded)])

\* What the receiver recovers from the request with the shared key and the iv field
Recovered ==
    RemovePKCS7Padding(
        Decrypt(AES_KEY, HexToBytes(request.body.iv.chars), request.body.content.hexOf))

\* The padded input is `blocks` blocks: the credential, then pad bytes all equal to
\* 16 - (len mod 16), the last byte among them, and the receiver recovers the credential
PaddedTo(blocks) ==
    LET len == Len(Credential)
        P == BlockSize - (len % BlockSize)
    IN  /\ Len(PaddedInput) = blocks * BlockSize
        /\ Len(PaddedInput) = len + P
        /\ SubSeq(PaddedInput, 1, len) = Credential
        /\ \A i \in len + 1 .. Len(PaddedInput) : PaddedInput[i] = P
        /\ PaddedInput[Len(PaddedInput)] = P
        /\ Recovered = Credential

C23_LongCredentialRejected == ~(Encrypted /\ Len(Credential) > BlockSize)

\* C24: for every card of 1 to 10 UID bytes, the iv field of the body is 32 lower-case
\* hex characters and the content field is 32 hex characters, one cipher block
LowerHexChars == { HexDigit(n) : n \in 0 .. 15 }
C24_BodyOfOneBlock ==
    (Encrypted /\ Len(request.uid) \in 1 .. 10) =>
        /\ Len(ValueChars(request.body.iv)) = 2 * BlockSize
        /\ \A i \in 1 .. 2 * BlockSize : ValueChars(request.body.iv)[i] \in LowerHexChars
        /\ Len(ValueChars(request.body.content)) = 2 * BlockSize
        /\ \A i \in 1 .. 2 * BlockSize :
             ValueChars(request.body.content)[i] \in LowerHexChars \cup { CIPHER_HEX_DIGIT }

\* C30: the iv field of a request spells the IV the encryption of its content field
\* was run with, so decrypting the content with the shared key and the transmitted iv
\* gives the padded credential
C30_IvSentIsIvUsed ==
    Encrypted =>
        /\ HexToBytes(request.body.iv.chars) = request.body.content.hexOf.iv
        /\ Decrypt(AES_KEY, HexToBytes(request.body.iv.chars), request.body.content.hexOf)
             = AddPKCS7Padding(Credential)

\* A request was built with the IV 00 11 22 .. ff and its iv field spells that IV
C30_Witness ==
    /\ pc = "sent"
    /\ Encrypted
    /\ request.body.content.hexOf.iv = LoopIV
    /\ request.body.iv.chars[3] = "1"
    /\ request.body.iv.chars[32] = "f"

-----------------------------------------------------------------------------
\* Claims about the request as it is written to the client

\* The number a string of decimal digits spells
DigitValue(c) == CHOOSE n \in 0 .. 9 : DecDigit(n) = c
RECURSIVE DecValue(_)
DecValue(digits) ==
    IF digits = << >> THEN 0
    ELSE 10 * DecValue(SubSeq(digits, 1, Len(digits) - 1)) + DigitValue(digits[Len(digits)])

\* The strings of a JSON text, in order: what stands between the 1st and the 2nd
\* quote, the 3rd and the 4th, ...; the member names are the 1st, 3rd, 5th, ... string
QuotePositions(json) ==
    SelectSeq([i \in 1 .. Len(json) |-> i], LAMBDA i : json[i] = QUOTE)
JsonString(json, k) ==
    SubSeq(json, QuotePositions(json)[2 * k - 1] + 1, QuotePositions(json)[2 * k] - 1)
MemberNames(json) ==
    [k \in 1 .. Len(QuotePositions(json)) \div 4 |-> JsonString(json, 2 * k - 1)]

\* Request bytes are written only on a connection that client.connect() has opened,
\* and none after a failed connect
WrittenAfterConnect ==
    /\ request.wire # NoWire => exch.connects = 1 /\ exch.sent /\ exch.last # "connect_failed"
    /\ exch.last = "connect_failed" => request.wire = NoWire

\* The lines are the request line, Host, Content-Type, Content-Length, Connection:
\* close, a blank line and the JSON body, and Content-Length spells the length of the body
FramedInOrder ==
    request.wire # NoWire =>
        /\ Len(request.wire) = 7
        /\ request.wire[1] = << "POST / HTTP/1.1" >>
        /\ request.wire[2] = << "Host: ", SERVER_ADDRESS >>
        /\ request.wire[3] = << "Content-Type: application/json" >>
        /\ Head(request.wire[4]) = "Content-Length: "
        /\ DecValue(Tail(request.wire[4])) = Len(request.wire[7])
        /\ request.wire[5] = << "Connection: close" >>
        /\ request.wire[6] = << >>
        /\ Head(request.wire[7]) = "{"
        /\ request.wire[7][Len(request.wire[7])] = "}"

\* C27: request bytes are written only after a successful connect, in the order
\* request line, Host, Content-Type, Content-Length, Connection: close, blank line, JSON
\* body; Content-Length is the length of the JSON body, and the members of the body
\* are exactly UUID, iv and content
C27_RequestFraming ==
    /\ WrittenAfterConnect
    /\ FramedInOrder
    /\ request.wire # NoWire =>
         MemberNames(request.wire[7])
             = << << "U", "U", "I", "D" >>, << "i", "v" >>,
                  << "c", "o", "n", "t", "e", "n", "t" >> >>

-----------------------------------------------------------------------------
\* The waits of loop() on the WiFi link and on the camera.  Each is a loop with no
\* deadline that ends only when the collaborator answers; once in it, the controller
\* makes no other step, and the time spent there is not tracked.

\* loop() finds the link down and calls setupWiFi(), and the link stays down:
\* while (WiFi.status() != WL_CONNECTED) delay(500); (main.cpp:95-98, 220-229)
SetupWiFiBlocked ==
    /\ pc = "wifi"
    /\ now <= MaxTime
    /\ wifiDrops < MaxWifiDrops
    /\ wifiDrops' = wifiDrops + 1
    /\ pc' = "setupWiFi"
    /\ NoDoorAction
    /\ feedback' = "none"
    /\ scan' = NoScan
    /\ exch' = Idle(exch)
    /\ request' = NoRequest
    /\ UNCHANGED << now, lastButtonState, lastDebounceTime, greenLed, scans, edges, ivs, fifo >>

\* processRFIDCard() for a card that is not granted, when the camera never sets
\* CAP_DONE: signalAccessDenied() calls capturePhotoToSD(), which waits in
\* while (!myCAM.get_bit(ARDUCHIP_TRIG, CAP_DONE_MASK)); (main.cpp:316-320, 475-480, 341-343)
CaptureBlocked ==
    /\ pc = "card"
    /\ scans < MaxScans
    /\ \E srv \in LoopServers, net \in NetTimes :
         LET result == AnswerTo(srv)
             answered == now + net + (IF result = "timeout" THEN RESPONSE_TIMEOUT + 1 ELSE 0)
         IN  /\ ~Authorized(result)
             /\ result # "hung"
             /\ now' = answered
             /\ scan' = Scanned(srv, result)
             /\ exch' = Exchange(srv, exch)
             /\ request' = RequestOf(Exchange(srv, exch))
             /\ feedback' = Feedback(result)
    /\ pc' = "capture"
    /\ NoDoorAction
    /\ scans' = scans + 1
    /\ UNCHANGED << lastButtonState, lastDebounceTime, greenLed, wifiDrops, edges, ivs, fifo >>

\* processRFIDCard() against a server that lets checkCardAuthorization return
ProcessRFIDCardReturns == ProcessRFIDCard /\ pc' # "hung"

\* The statements of loop() that run to their end
LoopStep ==
    \/ LoopWiFi
    \/ NoCard
    \/ ProcessRFIDCardReturns
    \/ CheckButton
    \/ LoopStop
    \/ LoopAutoClose

NextLive ==
    \/ LoopStep
    \/ SetupWiFiBlocked
    \/ CaptureBlocked

\* loop() runs again and again, so a statement that can run does run; nothing makes
\* the WiFi link come back or the camera finish
SpecLive == Init /\ [][NextLive]_vars /\ WF_vars(LoopStep)

-----------------------------------------------------------------------------
\* Claims about the waits on collaborators

\* The controller is inside setupWiFi() or inside the capture wait of capturePhotoToSD()
Waiting == pc \in { "setupWiFi", "capture" }

\* C29: whenever open() or close() has been issued, the matching stop() is eventually
\* issued, and whenever the door is open the auto-close close() is eventually issued,
\* also when the WiFi link is down or the camera never reports the capture done: no
\* wait on a collaborator keeps the servo driving or the door open forever
C29_NoWaitHoldsTheDoor ==
    []<>(Waiting => (servo = SERVO_STOP /\ ~doorIsOpen))

-----------------------------------------------------------------------------
\* formatUID over one card after another: the plaintext encryptUID is given

\* Byte values on both sides of 10 and of 100, where the decimal form of a byte
\* changes its number of digits, and of 16, below which formatUID writes a "0" first
FormatBytes == { 0, 1, 11, 100 }
FormatUids == UNION { [1 .. size -> FormatBytes] : size \in 1 .. UidSize }

\* One call of checkCardAuthorization of the encrypting class with the card uidBytes
\* (RFIDAuth.h:322-347), after the one before has returned
EncryptCard ==
    /\ pc \in { "wifi", "sent" }
    /\ \E uidBytes \in FormatUids :
         request' = Request(uidBytes, EncryptedBody(uidBytes, LoopIV))
    /\ exch' = Transmitted(exch)
    /\ pc' = "sent"
    /\ UNCHANGED << now, doorIsOpen, lastDoorAction, doorOpenStartTime, lastButtonState,
                    lastDebounceTime, servo, greenLed, cmd, feedback, scan,
                    openReachedAt, closesSinceOpen, scans, wifiDrops, edges, ivs, fifo >>

NextFormat == EncryptCard

SpecFormat == Init /\ [][NextFormat]_vars

\* C31: two different UID byte sequences, of the same length or not, never give the
\* same formatted string: whenever one card is encrypted after another and the two
\* UIDs differ, the plaintexts given to the cipher differ
C31_FormatUIDInjective ==
    [][(pc = "sent" /\ request.uid # request'.uid) => PaddedInput # PaddedInput']_vars

-----------------------------------------------------------------------------
\* loop() with millis() at its width: unsigned long, 32 bits, written as its two
\* 16-bit halves, so that the counter wraps from 2^32 - 1 to 0

Half == 2^16
U32(hi, lo) == [hi |-> hi, lo |-> lo]
ToU32(n) == U32((n \div Half) % Half, n % Half)

\* millis() d ms after it returned u
Add32(u, d) ==
    LET sum == u.lo + d
    IN  U32((u.hi + sum \div Half) % Half, sum % Half)

\* a - b of two unsigned long
Sub32(a, b) ==
    LET borrow == IF a.lo < b.lo THEN 1 ELSE 0
    IN  U32((a.hi - b.hi - borrow + Half) % Half, (a.lo - b.lo + Half) % Half)

\* a >= b and a > b of two unsigned long
Ge32(a, b) == a.hi > b.hi \/ (a.hi = b.hi /\ a.lo >= b.lo)
Gt32(a, b) == a.hi > b.hi \/ (a.hi = b.hi /\ a.lo > b.lo)

\* millis() - since (main.cpp:110, 116, 421, 424)
Elapsed32(t, since) == Sub32(t, since)

\* A movement check against the time at which the movement ends:
\* millis() >= lastDoorAction + DOOR_MOVE_TIME
MovementCompleteByDeadline(t) == Ge32(t, Add32(lastDoorAction, DOOR_MOVE_TIME))

\* loop(): "current door movement is complete" (main.cpp:110); DOOR_MOVE_TIME is
\* converted to unsigned long for the comparison
MovementComplete32(t) == Ge32(Elapsed32(t, lastDoorAction), ToU32(DOOR_MOVE_TIME))

\* loop(): "door has been open long enough" (main.cpp:116)
AutoCloseDue32(t) ==
    doorIsOpen /\ Ge32(Elapsed32(t, doorOpenStartTime), ToU32(DOOR_OPEN_TIME))

\* checkButton(): the press is taken (main.cpp:424-427)
ButtonPressed32(buttonState, t, debounceTime) ==
    /\ Gt32(Elapsed32(t, debounceTime), ToU32(debounceDelay))
    /\ buttonState = LOW
    /\ Ge32(Elapsed32(t, lastDoorAction), ToU32(DOOR_MOVE_TIME))

\* The time of a millis() value relative to the wrap, in ms: negative before it. The
\* behaviours below stay within 2^31 ms of the wrap
SinceWrap(u) == IF u.hi >= Half \div 2 THEN (u.hi - Half) * Half + u.lo ELSE u.hi * Half + u.lo

WrapLead == 1000          \* loop() is followed from this many ms before the wrap
WrapHorizon == 3400       \* no new iteration of loop() later than this after the wrap
MaxWrapScans == 1
MaxWrapEdges == 2

\* The value the three time variables have held since they were initialized
\* (main.cpp:56-59): the door and the button were not used since the start
BootStamp == U32(0, 0)

\* The controller, idle since it started, WrapLead ms before millis() wraps
InitWrap ==
    /\ pc = "wifi"
    /\ now = Sub32(BootStamp, ToU32(WrapLead))
    /\ doorIsOpen = FALSE
    /\ lastDoorAction = BootStamp
    /\ doorOpenStartTime = BootStamp
    /\ lastButtonState = HIGH
    /\ lastDebounceTime = BootStamp
    /\ servo = SERVO_STOP
    /\ greenLed = FALSE
    /\ cmd = "stop"
    /\ feedback = "none"
    /\ scan = NoScan
    /\ exch = NoExchange
    /\ request = NoRequest
    /\ openReachedAt = -1
    /\ closesSinceOpen = 0
    /\ scans = 0
    /\ wifiDrops = 0
    /\ edges = 0
    /\ ivs = << >>
    /\ fifo = NoFifo

\* if (WiFi.status() != WL_CONNECTED) setupWiFi();
LoopWiFi32 ==
    /\ pc = "wifi"
    /\ SinceWrap(now) <= WrapHorizon
    /\ \/ UNCHANGED << now, wifiDrops >>
       \/ /\ wifiDrops < MaxWifiDrops
          /\ wifiDrops' = wifiDrops + 1
          /\ now' = Add32(now, WIFI_RETRY_DELAY)
    /\ pc' = "card"
    /\ NoDoorAction
    /\ feedback' = "none"
    /\ scan' = NoScan
    /\ exch' = Idle(exch)
    /\ request' = NoRequest
    /\ UNCHANGED << lastButtonState, lastDebounceTime, greenLed, scans, edges, ivs, fifo >>

\* No new card at the reader
NoCard32 ==
    /\ pc = "card"
    /\ \E d \in PollTimes : now' = Add32(now, d)
    /\ pc' = "button"
    /\ NoDoorAction
    /\ feedback' = "none"
    /\ scan' = NoScan
    /\ exch' = Idle(exch)
    /\ request' = NoRequest
    /\ UNCHANGED << lastButtonState, lastDebounceTime, greenLed, scans, wifiDrops, edges,
                    ivs, fifo >>

\* processRFIDCard() (main.cpp:295-326) for a card scanned against server srv
ProcessRFIDCard32 ==
    /\ pc = "card"
    /\ scans < MaxWrapScans
    /\ \E srv \in LoopServers, net \in NetTimes, capture \in CaptureTimes :
         LET result == AnswerTo(srv)
             answered ==
                 Add32(now, net + (IF result = "timeout" THEN RESPONSE_TIMEOUT + 1 ELSE 0))
             done == IF Authorized(result) \/ result = "hung"
                     THEN answered
                     ELSE Add32(answered, DeniedFeedbackTime(capture))
         IN  /\ now' = done
             /\ scan' = Scanned(srv, result)
             /\ exch' = Exchange(srv, exch)
             /\ request' = RequestOf(Exchange(srv, exch))
             /\ pc' = IF result = "hung" THEN "hung" ELSE "button"
             /\ feedback' = Feedback(result)
             /\ IF Authorized(result) /\ result # "hung"
                THEN IF GrantOpens
                     THEN OpenDoor(answered)
                     ELSE NoDoorAction /\ greenLed' = TRUE
                ELSE NoDoorAction /\ UNCHANGED greenLed
    /\ scans' = scans + 1
    /\ UNCHANGED << lastButtonState, lastDebounceTime, wifiDrops, edges, ivs, fifo >>

\* checkButton() (main.cpp:412-439)
CheckButton32 ==
    /\ pc = "button"
    /\ \E buttonState \in { LOW, HIGH } :
         LET debounceTime == IF buttonState # lastButtonState THEN now ELSE lastDebounceTime
             changed == IF buttonState # lastButtonState THEN 1 ELSE 0
         IN  /\ edges + changed <= MaxWrapEdges
             /\ edges' = edges + changed
             /\ lastDebounceTime' = debounceTime
             /\ lastButtonState' = buttonState
             /\ IF ButtonPressed32(buttonState, now, debounceTime) /\ ~doorIsOpen
                THEN OpenDoor(now)
                ELSE NoDoorAction /\ UNCHANGED greenLed
    /\ pc' = "stop"
    /\ feedback' = "none"
    /\ scan' = NoScan
    /\ exch' = Idle(exch)
    /\ request' = NoRequest
    /\ UNCHANGED << now, scans, wifiDrops, ivs, fifo >>

\* if (millis() - lastDoorAction >= DOOR_MOVE_TIME) stopServo();
LoopStop32 ==
    /\ pc = "stop"
    /\ IF MovementComplete32(now)
       THEN StopServo(now)
       ELSE NoDoorAction /\ UNCHANGED greenLed
    /\ pc' = "autoclose"
    /\ feedback' = "none"
    /\ scan' = NoScan
    /\ exch' = Idle(exch)
    /\ request' = NoRequest
    /\ UNCHANGED << now, lastButtonState, lastDebounceTime, scans, wifiDrops, edges, ivs, fifo >>

\* if (doorIsOpen && millis() - doorOpenStartTime >= DOOR_OPEN_TIME) closeDoor();
LoopAutoClose32 ==
    /\ pc = "autoclose"
    /\ IF AutoCloseDue32(now)
       THEN CloseDoor(now)
       ELSE NoDoorAction /\ UNCHANGED greenLed
    /\ pc' = "wifi"
    /\ feedback' = "none"
    /\ scan' = NoScan
    /\ exch' = Idle(exch)
    /\ request' = NoRequest
    /\ UNCHANGED << now, lastButtonState, lastDebounceTime, scans, wifiDrops, edges, ivs, fifo >>

NextWrap ==
    \/ LoopWiFi32
    \/ NoCard32
    \/ ProcessRFIDCard32
    \/ CheckButton32
    \/ LoopStop32
    \/ LoopAutoClose32

SpecWrap == InitWrap /\ [][NextWrap]_vars

\* The door was operated since InitWrap: lastDoorAction is a time of these behaviours
DoorOperated == doorIsOpen \/ closesSinceOpen > 0

\* The time from the millis() value since to the millis() value t, both of these
\* behaviours, in ms
TimeBetween(since, t) == SinceWrap(t) - SinceWrap(since)

\* A time before the wrap and a time at or after it
AcrossWrap(since, t) == SinceWrap(since) < 0 /\ SinceWrap(t) >= 0

\* C32: the checks compare unsigned 32-bit differences of millis(), so a deadline set
\* shortly before the counter wraps still expires when its duration has passed: stop()
\* is called only once DOOR_MOVE_TIME has passed since the last door action and at
\* every check from then on, and the auto-close close() only once DOOR_OPEN_TIME has
\* passed since the door was opened and at the first check from then on, before,
\* across and after the wrap
C32_DeadlinesExpireAcrossWrap ==
    [][ /\ (cmd' = "stop" /\ DoorOperated)
           => TimeBetween(lastDoorAction, now') >= DOOR_MOVE_TIME
        /\ (pc = "stop" /\ DoorOperated
            /\ TimeBetween(lastDoorAction, now) >= DOOR_MOVE_TIME) => cmd' = "stop"
        /\ cmd' = "close" => TimeBetween(doorOpenStartTime, now') >= DOOR_OPEN_TIME
        /\ (pc = "autoclose" /\ doorIsOpen
            /\ TimeBetween(doorOpenStartTime, now) >= DOOR_OPEN_TIME) => cmd' = "close"
      ]_vars

\* The door was opened before the wrap and its auto-close close() has just been
\* called, after the wrap
C32_Witness ==
    /\ cmd = "close"
    /\ AcrossWrap(doorOpenStartTime, now)
    /\ TimeBetween(doorOpenStartTime, now) >= DOOR_OPEN_TIME
    /\ closesSinceOpen = 1

-----------------------------------------------------------------------------
\* The sketch that checks cards against a local list (main.cpp:494-730): loop()
\* checks the button, then the reader, then the two deadlines

\* AUTHORIZED_CARDS (main.cpp:523): entries of four bytes
AUTHORIZED_CARDS == { LoopUid, << 1, 2, 3, 4 >> }

\* The cards presented: an authorized one, one that differs from it in its last
\* byte, and cards of 7 and 10 bytes that begin with an authorized entry or do not
LocalCards ==
    { LoopUid,
      << 222, 173, 190, 238 >>,
      LoopUid \o << 5, 6, 7 >>,
      << 1, 2, 3, 4 >> \o << 5, 6, 7, 8, 9, 10 >>,
      << 4, 3, 2, 1, 5, 6, 7 >> }

\* mfrc522.uid.uidByte, the buffer of ten bytes that holds the UID read
UidByte(card) == [i \in 1 .. MaxUidSize |-> IF i <= Len(card) THEN card[i] ELSE 0]

\* compareUID (main.cpp:703-713)
CompareUID(uid1, uid2) == \A i \in 1 .. 4 : uid1[i] = uid2[i]

\* processRFIDCard(): the search of AUTHORIZED_CARDS (main.cpp:644-653)
AuthorizedLocally(card) == \E entry \in AUTHORIZED_CARDS : CompareUID(UidByte(card), entry)

\* The card of a scan of this sketch, which transmits nothing
LocalRequest(card) == [uid |-> card, body |-> NoBody, wire |-> NoWire]

\* checkButton() (main.cpp:600-625), the first statement of this loop(): pc = "wifi"
\* is the top of loop()
CheckButtonLocal ==
    /\ pc = "wifi"
    /\ now <= MaxTime
    /\ \E buttonState \in { LOW, HIGH } :
         LET debounceTime == IF buttonState # lastButtonState THEN now ELSE lastDebounceTime
             changed == IF buttonState # lastButtonState THEN 1 ELSE 0
         IN  /\ edges + changed <= MaxEdges
             /\ edges' = edges + changed
             /\ lastDebounceTime' = debounceTime
             /\ lastButtonState' = buttonState
             /\ IF ButtonPressed(buttonState, now, debounceTime) /\ ~doorIsOpen
                THEN OpenDoor(now)
                ELSE NoDoorAction /\ UNCHANGED greenLed
    /\ pc' = "card"
    /\ feedback' = "none"
    /\ scan' = NoScan
    /\ request' = NoRequest
    /\ UNCHANGED << now, exch, scans, wifiDrops, ivs, fifo >>

\* No new card at the reader
NoCardLocal ==
    /\ pc = "card"
    /\ \E d \in PollTimes : now' = now + d
    /\ pc' = "stop"
    /\ NoDoorAction
    /\ feedback' = "none"
    /\ scan' = NoScan
    /\ request' = NoRequest
    /\ UNCHANGED << lastButtonState, lastDebounceTime, greenLed, exch, scans, wifiDrops,
                    edges, ivs, fifo >>

\* processRFIDCard() (main.cpp:633-675) for the card read; signalAccessDenied()
\* (main.cpp:721-730) waits three beeps
ProcessRFIDCardLocal ==
    /\ pc = "card"
    /\ scans < MaxScans
    /\ \E card \in LocalCards :
         /\ request' = LocalRequest(card)
         /\ IF AuthorizedLocally(card)
            THEN /\ feedback' = "granted"
                 /\ now' = now
                 /\ IF GrantOpens
                    THEN OpenDoor(now)
                    ELSE NoDoorAction /\ greenLed' = TRUE
            ELSE /\ feedback' = "denied"
                 /\ now' = now + DENIED_BEEPS * DENIED_BEEP_DELAY
                 /\ NoDoorAction /\ UNCHANGED greenLed
    /\ pc' = "stop"
    /\ scan' = NoScan
    /\ scans' = scans + 1
    /\ UNCHANGED << lastButtonState, lastDebounceTime, exch, wifiDrops, edges, ivs, fifo >>

\* if (doorIsOpen && millis() - doorOpenStartTime >= DOOR_OPEN_TIME) closeDoor();
\* (main.cpp:575-578), the last statement of this loop()
LoopAutoCloseLocal ==
    /\ pc = "autoclose"
    /\ IF AutoCloseDue(now)
       THEN CloseDoor(now)
       ELSE NoDoorAction /\ UNCHANGED greenLed
    /\ pc' = "wifi"
    /\ feedback' = "none"
    /\ scan' = NoScan
    /\ request' = NoRequest
    /\ UNCHANGED << now, lastButtonState, lastDebounceTime, exch, scans, wifiDrops, edges,
                    ivs, fifo >>

NextLocal ==
    \/ CheckButtonLocal
    \/ NoCardLocal
    \/ ProcessRFIDCardLocal
    \/ LoopStop
    \/ LoopAutoCloseLocal

SpecLocal == Init /\ [][NextLocal]_vars

\* C33: in the sketch with the local list, processRFIDCard grants a card only if its
\* complete UID, all of its 4, 7 or 10 bytes, equals an entry of AUTHORIZED_CARDS, and
\* denies every card whose UID differs from each entry in a byte or in length
C33_GrantsCompleteUidOnly ==
    request.uid # << >> => (feedback = "granted" <=> request.uid \in AUTHORIZED_CARDS)

-----------------------------------------------------------------------------
\* The read loop of capturePhotoToSD (main.cpp:362-410), one action per iteration

BUF_SIZE == 256           \* byte buf[256]
JPEG_MARKER == 255        \* 0xFF
JPEG_SOI == 216           \* 0xD8
JPEG_EOI == 217           \* 0xD9

\* The bytes the FIFO delivers: the three the loop tests for and one other
FifoBytes == { JPEG_MARKER, JPEG_SOI, JPEG_EOI, 0 }

\* read_fifo_length() of the captures that are read: 1 .. MaxFifoLength
MaxFifoLength == 257

\* length = read_fifo_length(), the file is opened, and the locals are declared:
\* bool is_header = false; int i = 0; uint8_t temp, temp_last = 0; (main.cpp:346-369).
\* temp is not initialized: it holds any byte
StartFifoRead ==
    /\ pc = "wifi"
    /\ \E length \in 1 .. MaxFifoLength, temp \in FifoBytes :
         fifo' = [length |-> length, temp |-> temp, temp_last |-> 0, is_header |-> FALSE,
                  i |-> 0, wrote |-> << >>]
    /\ pc' = "fifo"
    /\ UNCHANGED << now, doorIsOpen, lastDoorAction, doorOpenStartTime, lastButtonState,
                    lastDebounceTime, servo, greenLed, cmd, feedback, scan, exch, request,
                    openReachedAt, closesSinceOpen, scans, wifiDrops, edges, ivs >>

\* "Capture size error" or "File open failed": return before the loop (main.cpp:348-360)
CaptureNotRead ==
    /\ pc = "wifi"
    /\ fifo' = NoFifo
    /\ pc' = "captured"
    /\ UNCHANGED << now, doorIsOpen, lastDoorAction, doorOpenStartTime, lastButtonState,
                    lastDebounceTime, servo, greenLed, cmd, feedback, scan, exch, request,
                    openReachedAt, closesSinceOpen, scans, wifiDrops, edges, ivs >>

\* One iteration of while (length--) with the byte SPI.transfer(0x00) returns
\* (main.cpp:371-409)
ReadFifoByte ==
    /\ pc = "fifo"
    /\ fifo.length # 0
    /\ \E byte \in FifoBytes :
         LET temp_last == fifo.temp
             temp == byte
             i == fifo.i
             read == [fifo EXCEPT !.length = fifo.length - 1, !.temp_last = temp_last,
                                  !.temp = temp]
         IN  IF temp = JPEG_EOI /\ temp_last = JPEG_MARKER
             THEN /\ fifo' = [read EXCEPT !.wrote = << i >>, !.i = i + 1]
                  /\ pc' = "captured"
             ELSE /\ pc' = "fifo"
                  /\ IF fifo.is_header
                     THEN IF i < BUF_SIZE
                          THEN fifo' = [read EXCEPT !.wrote = << i >>, !.i = i + 1]
                          ELSE fifo' = [read EXCEPT !.wrote = << 0 >>, !.i = 1]
                     ELSE IF temp = JPEG_SOI /\ temp_last = JPEG_MARKER
                          THEN fifo' = [read EXCEPT !.is_header = TRUE,
                                                    !.wrote = << i, i + 1 >>, !.i = i + 2]
                          ELSE fifo' = [read EXCEPT !.wrote = << >>]
    /\ UNCHANGED << now, doorIsOpen, lastDoorAction, doorOpenStartTime, lastButtonState,
                    lastDebounceTime, servo, greenLed, cmd, feedback, scan, exch, request,
                    openReachedAt, closesSinceOpen, scans, wifiDrops, edges, ivs >>

\* while (length--) finds length 0: the loop ends with no end-of-image byte seen
FifoDrained ==
    /\ pc = "fifo"
    /\ fifo.length = 0
    /\ fifo' = [fifo EXCEPT !.wrote = << >>]
    /\ pc' = "captured"
    /\ UNCHANGED << now, doorIsOpen, lastDoorAction, doorOpenStartTime, lastButtonState,
                    lastDebounceTime, servo, greenLed, cmd, feedback, scan, exch, request,
                    openReachedAt, closesSinceOpen, scans, wifiDrops, edges, ivs >>

NextCapture ==
    \/ StartFifoRead
    \/ CaptureNotRead
    \/ ReadFifoByte
    \/ FifoDrained

SpecCapture == Init /\ [][NextCapture]_vars

\* C34: in capturePhotoToSD every write buf[i++] has its index in 0 .. 255: the write
\* of the end-of-image byte, the two writes of the start-of-image marker and the
\* writes of the image data, for every sequence of bytes from the FIFO
C34_BufIndexInRange ==
    \A k \in 1 .. Len(fifo.wrote) : fifo.wrote[k] \in 0 .. BUF_SIZE - 1

====
